---- MODULE Spec2Model ----
(***************************************************************************)
(* A model of the Crop module of CellProfiler                               *)
(* (pyCellProfiler/cellprofiler/modules/crop.py, class Crop).              *)
(*                                                                         *)
(* One Crop instance is modelled.  Its persistent state is the pair        *)
(* (__first_cropping, __first_crop_mask) together with the settings that   *)
(* stay fixed for a pipeline run (individual_or_once,                      *)
(* remove_rows_and_columns) and the pixel-size preference.  Crop.run is    *)
(* one atomic action (Run); the variables call and ret hold the arguments  *)
(* and the effects of the invocation whose workspace is still alive, and   *)
(* EndCycle discards that workspace.                                       *)
(*                                                                         *)
(* get_rectangle_cropping and get_ellipse_cropping are also studied on     *)
(* their own (SpecRectangle, SpecEllipse): arg holds the arguments and res *)
(* the mask under construction.                                            *)
(*                                                                         *)
(* Arrays are records [shape, px]: shape is the numpy shape tuple and px   *)
(* maps every zero-based index tuple to the element stored there.          *)
(***************************************************************************)
EXTENDS Integers, Sequences, FiniteSets, TLC

VARIABLES individual_or_once, remove_rows_and_columns, pixel_size,
          first_cropping, first_crop_mask, pc, call, ret, arg, res

vars == <<individual_or_once, remove_rows_and_columns, pixel_size,
          first_cropping, first_crop_mask, pc, call, ret, arg, res>>

(***************************************************************************)
(* Bounds of the model.                                                    *)
(***************************************************************************)
MaxH == 2
MaxW == 2
MaxCycle == 1
MaxLimit == 1
MaxRadius == 1

\* cpprefs.get_pixel_size() during the run
PixelSize == 2

\* number of channels of a colour image
NChannels == 2

(***************************************************************************)
(* Setting values (crop.py lines 25-36).                                   *)
(***************************************************************************)
SH_ELLIPSE == "Ellipse"
SH_RECTANGLE == "Rectangle"
SH_IMAGE == "Image"
SH_OBJECTS == "Objects"
SH_CROPPING == "Cropping"
CM_COORDINATES == "Coordinates"
CM_MOUSE == "Mouse"
IO_INDIVIDUALLY == "Individually"
IO_FIRST == "First"
RM_NO == "No"
RM_EDGES == "Edges"
RM_ALL == "All"

(***************************************************************************)
(* Arrays.                                                                 *)
(***************************************************************************)
\* Python's None where an array is expected
None == [shape |-> <<>>, px |-> <<>>]

\* the index tuples of an array of the given shape (2-D or 3-D)
Idx(shape) ==
    IF Len(shape) = 2
    THEN {<<i, j>> : i \in 0..(shape[1] - 1), j \in 0..(shape[2] - 1)}
    ELSE {<<i, j, c>> : i \in 0..(shape[1] - 1), j \in 0..(shape[2] - 1),
                        c \in 0..(shape[3] - 1)}

\* a.shape[:2]
Shape2(a) == SubSeq(a.shape, 1, 2)

\* np.ones(shape, bool)
Ones(shape) == [shape |-> shape, px |-> [p \in Idx(shape) |-> TRUE]]

\* a > 0, elementwise
GreaterThanZero(a) == [shape |-> a.shape, px |-> [p \in DOMAIN a.px |-> a.px[p] > 0]]

\* the element of mask m that a boolean index pairs with element p of an
\* array: a mask of fewer dimensions indexes the leading axes
MaskAt(m, p) == IF Len(m.shape) = 2 THEN m.px[<<p[1], p[2]>>] ELSE m.px[p]

\* a[np.logical_not(m)] = 0
ZeroWhereNot(a, m) ==
    [shape |-> a.shape, px |-> [p \in DOMAIN a.px |-> IF MaskAt(m, p) THEN a.px[p] ELSE 0]]

\* np.sum(m) of a boolean array
CountTrue(m) == Cardinality({p \in DOMAIN m.px : m.px[p]})

(***************************************************************************)
(* Crop.get_rectangle_cropping (crop.py lines 378-389).  A range setting   *)
(* is a record [unbounded_min, min, unbounded_max, max].                   *)
(***************************************************************************)
SetFalse(cropping, sel) ==
    [shape |-> cropping.shape,
     px |-> [p \in DOMAIN cropping.px |-> IF p \in sel THEN FALSE ELSE cropping.px[p]]]

\* cropping[:,:self.horizontal_limits.min]=False
ClampLeft(cropping, horizontal_limits) ==
    IF ~horizontal_limits.unbounded_min
    THEN SetFalse(cropping, {p \in DOMAIN cropping.px : p[2] < horizontal_limits.min})
    ELSE cropping

\* ClampRight with the slice starting one column late
ClampRightOffByOne(cropping, horizontal_limits) ==
    IF ~horizontal_limits.unbounded_max
    THEN SetFalse(cropping, {p \in DOMAIN cropping.px : p[2] > horizontal_limits.max})
    ELSE cropping

\* cropping[:,self.horizontal_limits.max:]=False
ClampRight(cropping, horizontal_limits) ==
    IF ~horizontal_limits.unbounded_max
    THEN SetFalse(cropping, {p \in DOMAIN cropping.px : p[2] >= horizontal_limits.max})
    ELSE cropping

\* cropping[:self.vertical_limits.min,:]=False
ClampTop(cropping, vertical_limits) ==
    IF ~vertical_limits.unbounded_min
    THEN SetFalse(cropping, {p \in DOMAIN cropping.px : p[1] < vertical_limits.min})
    ELSE cropping

\* cropping[self.vertical_limits.max:,:]=False
ClampBottom(cropping, vertical_limits) ==
    IF ~vertical_limits.unbounded_max
    THEN SetFalse(cropping, {p \in DOMAIN cropping.px : p[1] >= vertical_limits.max})
    ELSE cropping

get_rectangle_cropping(settings, orig_image) ==
    ClampBottom(
        ClampTop(
            ClampRight(
                ClampLeft(Ones(orig_image.shape), settings.horizontal_limits),
                settings.horizontal_limits),
            settings.vertical_limits),
        settings.vertical_limits)

(***************************************************************************)
(* cpimage.crop_image(image, crop_mask, crop_internal): the GridReducer    *)
(* extraction step.  It keeps the rows and columns of image that the 2-D   *)
(* mask does not exclude entirely: with crop_internal every row/column     *)
(* holding a true entry, without it the contiguous range from the first to *)
(* the last such row/column.  It fails when the mask has no true entry.    *)
(***************************************************************************)
RowsWithTrue(m) == {i \in 0..(m.shape[1] - 1) : \E j \in 0..(m.shape[2] - 1) : m.px[<<i, j>>]}

ColsWithTrue(m) == {j \in 0..(m.shape[2] - 1) : \E i \in 0..(m.shape[1] - 1) : m.px[<<i, j>>]}

SetMin(S) == CHOOSE x \in S : \A y \in S : x <= y

SetMax(S) == CHOOSE x \in S : \A y \in S : x >= y

\* the kept indices: S itself, or the whole range it spans
Kept(S, crop_internal) == IF crop_internal THEN S ELSE SetMin(S)..SetMax(S)

\* the k-th (zero-based) element of a set of integers in increasing order
Nth(S, k) == CHOOSE x \in S : Cardinality({y \in S : y < x}) = k

crop_image_fails(crop_mask) == RowsWithTrue(crop_mask) = {}

crop_image(image, crop_mask, crop_internal) ==
    LET rows == Kept(RowsWithTrue(crop_mask), crop_internal)
        cols == Kept(ColsWithTrue(crop_mask), crop_internal)
        shape == IF Len(image.shape) = 2
                 THEN <<Cardinality(rows), Cardinality(cols)>>
                 ELSE <<Cardinality(rows), Cardinality(cols), image.shape[3]>>
    IN  [shape |-> shape,
         px |-> [p \in Idx(shape) |->
                   image.px[[p EXCEPT ![1] = Nth(rows, p[1]), ![2] = Nth(cols, p[2])]]]]

(***************************************************************************)
(* Crop.plate_fixup (crop.py lines 391-425) on a 2-D grid.  The quotients  *)
(* shape[0]/2 and shape[1]/2 are integer (floor) divisions.  np.argwhere   *)
(* (...)[0] raises IndexError when no index qualifies.                     *)
(***************************************************************************)
RECURSIVE SumTo(_, _)
\* f[0] + ... + f[n-1]
SumTo(f, n) == IF n = 0 THEN 0 ELSE SumTo(f, n - 1) + f[n - 1]

\* pixel_data.sum(axis=1)
i_histogram(pixel_data) ==
    [i \in 0..(pixel_data.shape[1] - 1) |->
        SumTo([j \in 0..(pixel_data.shape[2] - 1) |-> pixel_data.px[<<i, j>>]],
              pixel_data.shape[2])]

\* pixel_data.sum(axis=0)
j_histogram(pixel_data) ==
    [j \in 0..(pixel_data.shape[2] - 1) |->
        SumTo([i \in 0..(pixel_data.shape[1] - 1) |-> pixel_data.px[<<i, j>>]],
              pixel_data.shape[1])]

\* np.cumsum(i_histogram > pixel_data.shape[0]/2)
i_cumsum(pixel_data) ==
    LET hist == i_histogram(pixel_data)
        over == [i \in DOMAIN hist |-> IF hist[i] > pixel_data.shape[1] \div 2 THEN 1 ELSE 0]
    IN  [i \in DOMAIN hist |-> SumTo(over, i + 1)]

\* np.cumsum(j_histogram > pixel_data.shape[1]/2)
j_cumsum(pixel_data) ==
    LET hist == j_histogram(pixel_data)
        over == [j \in DOMAIN hist |-> IF hist[j] > pixel_data.shape[2] \div 2 THEN 1 ELSE 0]
    IN  [j \in DOMAIN hist |-> SumTo(over, j + 1)]

\* the indices np.argwhere(cumsum == v) returns
ArgWhere(cumsum, v) == {k \in DOMAIN cumsum : cumsum[k] = v}

CumMax(cumsum) == SetMax({cumsum[k] : k \in DOMAIN cumsum})

Max2(a, b) == IF a >= b THEN a ELSE b

Min2(a, b) == IF a <= b THEN a ELSE b

\* np.argwhere(i_cumsum==1)[0] or np.argwhere(j_cumsum==1)[0] raises
plate_fixup_fails(pixel_data) ==
    \/ ArgWhere(i_cumsum(pixel_data), 1) = {}
    \/ ArgWhere(j_cumsum(pixel_data), 1) = {}

\* the window [i_first, i_end) x [j_first, j_end) of lines 403-416
plate_fixup_window(settings, pixel_data) ==
    LET ic == i_cumsum(pixel_data)
        jc == j_cumsum(pixel_data)
        i_first0 == SetMin(ArgWhere(ic, 1))
        i_last == SetMin(ArgWhere(ic, CumMax(ic)))
        i_end0 == i_last + 1
        j_first0 == SetMin(ArgWhere(jc, 1))
        j_last == SetMin(ArgWhere(jc, CumMax(jc)))
        j_end0 == j_last + 1
        h == settings.horizontal_limits
        v == settings.vertical_limits
    IN  [j_first |-> IF ~h.unbounded_min THEN Max2(j_first0, h.min) ELSE j_first0,
         j_end |-> IF ~h.unbounded_max THEN Min2(j_end0, h.max) ELSE j_end0,
         i_first |-> IF ~v.unbounded_min THEN Max2(i_first0, v.min) ELSE i_first0,
         i_end |-> IF ~v.unbounded_max THEN Min2(i_end0, v.max) ELSE i_end0]

plate_fixup(settings, pixel_data) ==
    LET win == plate_fixup_window(settings, pixel_data)
    IN  [shape |-> pixel_data.shape,
         px |-> [p \in DOMAIN pixel_data.px |->
                   IF \/ p[1] < win.i_first
                      \/ p[1] >= win.i_end
                      \/ p[2] < win.j_first
                      \/ p[2] >= win.j_end
                   THEN 0
                   ELSE pixel_data.px[p]]]

(***************************************************************************)
(* IEEE-754 binary64 arithmetic, as math.sqrt and numpy carry it out in    *)
(* get_ellipse_cropping.  A natural number of any size is a sequence of    *)
(* limbs, least significant first and without leading zero limbs; a float  *)
(* is a record [neg, m, e] standing for (-1)^neg * m * 2^e with m below    *)
(* 2^53 (or equal to it after a round-up).  Every operation computes the   *)
(* exact result and rounds it to nearest, ties to even.  The magnitudes    *)
(* met here are far from the overflow and subnormal ranges.                *)
(***************************************************************************)
Limb == 2^15

LimbBits == 15

MantissaBits == 53

RECURSIVE BigNorm(_)
BigNorm(a) ==
    IF a = <<>> THEN a
    ELSE IF a[Len(a)] = 0 THEN BigNorm(SubSeq(a, 1, Len(a) - 1))
    ELSE a

RECURSIVE BigOfInt(_)
BigOfInt(n) == IF n = 0 THEN <<>> ELSE <<n % Limb>> \o BigOfInt(n \div Limb)

LimbAt(a, i) == IF i <= Len(a) THEN a[i] ELSE 0

RECURSIVE BigAddFrom(_, _, _, _)
BigAddFrom(a, b, i, carry) ==
    IF i > Len(a) /\ i > Len(b)
    THEN IF carry = 0 THEN <<>> ELSE <<carry>>
    ELSE LET s == LimbAt(a, i) + LimbAt(b, i) + carry
         IN  <<s % Limb>> \o BigAddFrom(a, b, i + 1, s \div Limb)

BigAdd(a, b) == BigAddFrom(a, b, 1, 0)

RECURSIVE BigSubFrom(_, _, _, _)
BigSubFrom(a, b, i, borrow) ==
    IF i > Len(a)
    THEN <<>>
    ELSE LET s == LimbAt(a, i) - LimbAt(b, i) - borrow
         IN  IF s < 0
             THEN <<s + Limb>> \o BigSubFrom(a, b, i + 1, 1)
             ELSE <<s>> \o BigSubFrom(a, b, i + 1, 0)

\* a - b for a >= b
BigSub(a, b) == BigNorm(BigSubFrom(a, b, 1, 0))

RECURSIVE BigCmpFrom(_, _, _)
BigCmpFrom(a, b, i) ==
    IF i = 0 THEN 0
    ELSE IF a[i] < b[i] THEN -1
    ELSE IF a[i] > b[i] THEN 1
    ELSE BigCmpFrom(a, b, i - 1)

\* -1, 0 or 1 as a is below, equal to or above b
BigCmp(a, b) ==
    IF Len(a) < Len(b) THEN -1
    ELSE IF Len(a) > Len(b) THEN 1
    ELSE BigCmpFrom(a, b, Len(a))

RECURSIVE BigMulLimbFrom(_, _, _, _)
BigMulLimbFrom(a, d, i, carry) ==
    IF i > Len(a)
    THEN IF carry = 0 THEN <<>> ELSE <<carry>>
    ELSE LET s == a[i] * d + carry
         IN  <<s % Limb>> \o BigMulLimbFrom(a, d, i + 1, s \div Limb)

\* a * d for one limb d
BigMulLimb(a, d) == IF d = 0 THEN <<>> ELSE BigMulLimbFrom(a, d, 1, 0)

RECURSIVE BigMul(_, _)
BigMul(a, b) ==
    IF a = <<>> \/ b = <<>> THEN <<>>
    ELSE LET rest == BigMul(Tail(a), b)
         IN  BigAdd(BigMulLimb(b, a[1]), IF rest = <<>> THEN <<>> ELSE <<0>> \o rest)

Zeros(q) == [i \in 1..q |-> 0]

\* a * 2^k
BigShl(a, k) ==
    IF a = <<>> THEN <<>>
    ELSE Zeros(k \div LimbBits) \o BigMulLimb(a, 2^(k % LimbBits))

\* a \div 2^k
BigShr(a, k) ==
    LET q == k \div LimbBits
        r == k % LimbBits
        n == Len(a) - q
    IN  IF n <= 0 THEN <<>>
        ELSE BigNorm([i \in 1..n |->
                        (a[q + i] \div 2^r) + (LimbAt(a, q + i + 1) % 2^r) * 2^(LimbBits - r)])

RECURSIVE SmallBitLen(_)
SmallBitLen(n) == IF n = 0 THEN 0 ELSE 1 + SmallBitLen(n \div 2)

BigBitLen(a) == IF a = <<>> THEN 0 ELSE LimbBits * (Len(a) - 1) + SmallBitLen(a[Len(a)])

BigIsOdd(a) == a # <<>> /\ a[1] % 2 = 1

\* the nearest float to (-1)^neg * M * 2^E, ties to even
Round(neg, M, E) ==
    LET len == BigBitLen(M)
    IN  IF len <= MantissaBits
        THEN [neg |-> neg, m |-> M, e |-> E]
        ELSE LET s == len - MantissaBits
                 q == BigShr(M, s)
                 rem == BigSub(M, BigShl(q, s))
                 half == BigShl(<<1>>, s - 1)
                 c == BigCmp(rem, half)
                 up == c = 1 \/ (c = 0 /\ BigIsOdd(q))
             IN  [neg |-> neg, m |-> IF up THEN BigAdd(q, <<1>>) ELSE q, e |-> E + s]

\* an integer as a float (exact)
FloatOfInt(n) == [neg |-> n < 0, m |-> BigOfInt(IF n < 0 THEN -n ELSE n), e |-> 0]

FloatNeg(x) == [x EXCEPT !.neg = ~x.neg]

\* x + y
FloatAdd(x, y) ==
    LET e == IF x.e <= y.e THEN x.e ELSE y.e
        X == BigShl(x.m, x.e - e)
        Y == BigShl(y.m, y.e - e)
    IN  IF x.neg = y.neg THEN Round(x.neg, BigAdd(X, Y), e)
        ELSE IF BigCmp(X, Y) >= 0 THEN Round(x.neg, BigSub(X, Y), e)
        ELSE Round(y.neg, BigSub(Y, X), e)

\* x - y
FloatSub(x, y) == FloatAdd(x, FloatNeg(y))

\* x * y
FloatMul(x, y) == Round(x.neg # y.neg, BigMul(x.m, y.m), x.e + y.e)

RECURSIVE BigIsqrtFrom(_, _, _, _)
\* the largest r with r*r <= N, given r (and sq = r*r) correct above bit k
BigIsqrtFrom(N, r, sq, k) ==
    IF k < 0 THEN [root |-> r, exact |-> sq = N]
    ELSE LET sq2 == BigAdd(BigAdd(sq, BigShl(r, k + 1)), BigShl(<<1>>, 2 * k))
         IN  IF BigCmp(sq2, N) <= 0
             THEN BigIsqrtFrom(N, BigAdd(r, BigShl(<<1>>, k)), sq2, k - 1)
             ELSE BigIsqrtFrom(N, r, sq, k - 1)

BigIsqrt(N) == BigIsqrtFrom(N, <<>>, <<>>, BigBitLen(N) \div 2)

\* sqrt(x) for x >= 0
FloatSqrt(x) ==
    IF x.m = <<>> THEN x
    ELSE LET t0 == 2 * MantissaBits + 4 - BigBitLen(x.m)
             t == IF (x.e - t0) % 2 = 0 THEN t0 ELSE t0 + 1
             s == BigIsqrt(BigShl(x.m, t))
             twice == BigShl(s.root, 1)
         IN  Round(FALSE, IF s.exact THEN twice ELSE BigAdd(twice, <<1>>), (x.e - t) \div 2 - 1)

\* x <= n for a float x and an integer n >= 0
FloatLeqInt(x, n) ==
    \/ x.neg
    \/ IF x.e >= 0
       THEN BigCmp(BigShl(x.m, x.e), BigOfInt(n)) <= 0
       ELSE BigCmp(x.m, BigShl(BigOfInt(n), -x.e)) <= 0

(***************************************************************************)
(* Crop.get_ellipse_cropping (crop.py lines 352-376).  The centre and the  *)
(* radii are integers; math.sqrt, the subtractions from the integer grid   *)
(* coordinates, the squares, np.sqrt and the sum are float operations.     *)
(***************************************************************************)
\* lines 361-368
ellipse_foci(settings) ==
    LET x_center == settings.ellipse_center[1]
        y_center == settings.ellipse_center[2]
        x_radius == settings.ellipse_x_radius
        y_radius == settings.ellipse_y_radius
        wide == x_radius > y_radius
        dist_x == IF wide
                  THEN FloatSqrt(FloatOfInt(x_radius * x_radius - y_radius * y_radius))
                  ELSE FloatOfInt(0)
        dist_y == IF wide
                  THEN FloatOfInt(0)
                  ELSE FloatSqrt(FloatOfInt(y_radius * y_radius - x_radius * x_radius))
    IN  [major_radius |-> IF wide THEN x_radius ELSE y_radius,
         focus_1_x |-> FloatSub(FloatOfInt(x_center), dist_x),
         focus_1_y |-> FloatSub(FloatOfInt(y_center), dist_y),
         focus_2_x |-> FloatAdd(FloatOfInt(x_center), dist_x),
         focus_2_y |-> FloatAdd(FloatOfInt(y_center), dist_y)]

FloatSquare(v) == FloatMul(v, v)

\* np.sqrt((x-focus_x)**2+(y-focus_y)**2) at one pixel
focus_distance(x, y, focus_x, focus_y) ==
    FloatSqrt(FloatAdd(FloatSquare(FloatSub(FloatOfInt(x), focus_x)),
                       FloatSquare(FloatSub(FloatOfInt(y), focus_y))))

\* line 375 at the pixel of row y and column x
ellipse_includes(foci, x, y) ==
    FloatLeqInt(FloatAdd(focus_distance(x, y, foci.focus_1_x, foci.focus_1_y),
                         focus_distance(x, y, foci.focus_2_x, foci.focus_2_y)),
                foci.major_radius * 2)

get_ellipse_cropping(settings, orig_image) ==
    LET foci == ellipse_foci(settings)
        shape == Shape2(orig_image)
    IN  [shape |-> shape,
         px |-> [p \in Idx(shape) |-> ellipse_includes(foci, p[2], p[1])]]

(***************************************************************************)
(* The invocations of the model.                                           *)
(*                                                                         *)
(* An invocation c is a record [settings, workspace, fault]:               *)
(*   settings   the shape settings in force (shape, crop_method, the two   *)
(*              ranges, the ellipse parameters, use_plate_fix);            *)
(*   workspace  image_set.number, the image to crop and the arrays the     *)
(*              source settings name: image_mask (pixel data of the mask   *)
(*              image), objects (the segmented labels) and crop_mask (the  *)
(*              crop mask of the cropping image), each of the height and   *)
(*              width of the image as the module's help requires;          *)
(*   fault      which collaborator call raises, if any: image_set.add      *)
(*              ("add") or measurements.add_measurement ("measure").       *)
(* workspace.frame is None (no display).                                   *)
(***************************************************************************)
\* the (H, W) of the images
Sizes == {<<h, MaxW>> : h \in 1..MaxH}

\* an image whose elements are all different and positive
Ramp(shape) ==
    [shape |-> shape,
     px |-> [p \in Idx(shape) |->
               IF Len(shape) = 2
               THEN 1 + p[1] * shape[2] + p[2]
               ELSE 1 + (p[1] * shape[2] + p[2]) * shape[3] + p[3]]]

\* the images to crop: grey (2-D) and colour (3-D)
Images == {Ramp(hw) : hw \in Sizes} \cup {Ramp(hw \o <<NChannels>>) : hw \in Sizes}

\* the 2-D grid whose first k elements, row by row, are 1 and the rest 0
Prefix(shape, k) ==
    [shape |-> shape,
     px |-> [p \in Idx(shape) |-> IF p[1] * shape[2] + p[2] < k THEN 1 ELSE 0]]

\* the source grids of a shape: from all zero to all one
Sources(shape) == {Prefix(shape, k) : k \in 0..(shape[1] * shape[2])}

\* one end of a range: unbounded, or a limit from 0 to n
RangeEnds(n) == {<<TRUE, 0>>} \cup {<<FALSE, m>> : m \in 0..n}

\* the values of an IntegerOrUnboundedRange setting (minval=0) up to n
RangesUpTo(n) ==
    {[unbounded_min |-> a[1], min |-> a[2], unbounded_max |-> b[1], max |-> b[2]] :
        a \in RangeEnds(n), b \in RangeEnds(n)}

Ranges == RangesUpTo(MaxLimit)

Unbounded == [unbounded_min |-> TRUE, min |-> 0, unbounded_max |-> TRUE, max |-> 0]

\* create_settings, lines 147-173 (ranges start unbounded)
DefaultSettings ==
    [shape |-> SH_ELLIPSE,
     crop_method |-> CM_COORDINATES,
     horizontal_limits |-> Unbounded,
     vertical_limits |-> Unbounded,
     ellipse_center |-> <<0, 0>>,
     ellipse_x_radius |-> 0,
     ellipse_y_radius |-> 0,
     use_plate_fix |-> FALSE]

\* rectangles bounded along one axis
RectangleSettings ==
    {[DefaultSettings EXCEPT !.shape = SH_RECTANGLE, !.horizontal_limits = h] : h \in Ranges}
    \cup {[DefaultSettings EXCEPT !.shape = SH_RECTANGLE, !.vertical_limits = v] : v \in Ranges}

EllipseSettings ==
    {[DefaultSettings EXCEPT !.shape = SH_ELLIPSE,
                             !.ellipse_x_radius = rx,
                             !.ellipse_y_radius = ry] :
        rx \in 0..MaxRadius, ry \in 0..MaxRadius}

MouseSettings ==
    {[DefaultSettings EXCEPT !.shape = sh, !.crop_method = CM_MOUSE] :
        sh \in {SH_RECTANGLE, SH_ELLIPSE}}

ImageSettings ==
    {[DefaultSettings EXCEPT !.shape = SH_IMAGE, !.use_plate_fix = b] : b \in BOOLEAN}

NoWorkspace ==
    [number |-> 0, image |-> None, image_mask |-> None, objects |-> None, crop_mask |-> None]

NoCall == [settings |-> DefaultSettings, workspace |-> NoWorkspace, fault |-> ""]

\* the settings and source arrays that can go with an image
ShapeInputs(image) ==
    LET hw == Shape2(image)
        plain == [NoWorkspace EXCEPT !.image = image]
    IN  {<<s, plain>> : s \in RectangleSettings \cup EllipseSettings \cup MouseSettings}
        \cup {<<s, [plain EXCEPT !.image_mask = g]>> : s \in ImageSettings, g \in Sources(hw)}
        \cup {<<[DefaultSettings EXCEPT !.shape = SH_OBJECTS], [plain EXCEPT !.objects = g]>> :
                g \in Sources(hw)}
        \cup {<<[DefaultSettings EXCEPT !.shape = SH_CROPPING],
                [plain EXCEPT !.crop_mask = GreaterThanZero(g)]>> : g \in Sources(hw)}

Faults == {"", "add", "measure"}

Calls ==
    {[settings |-> sw[1], workspace |-> [sw[2] EXCEPT !.number = n], fault |-> f] :
        sw \in UNION {ShapeInputs(image) : image \in Images},
        n \in 0..MaxCycle,
        f \in Faults}

\* cpimage.crop_image is specified for a 2-D mask only; a colour image under
\* a Rectangle gets a 3-D cropping (line 380)
crop_image_applies(policy, c) ==
    \/ policy = RM_NO
    \/ Len(c.workspace.image.shape) = 2
    \/ c.settings.shape # SH_RECTANGLE
    \/ c.settings.crop_method # CM_COORDINATES

\* get_ellipse_cropping for every ellipse and image size of the model
EllipseCroppings ==
    {<<s, hw, get_ellipse_cropping(s, Ramp(hw))>> : s \in EllipseSettings, hw \in Sizes}

\* the entry of EllipseCroppings for the call
ellipse_cropping(settings, orig_image) ==
    (CHOOSE t \in EllipseCroppings : t[1] = settings /\ t[2] = Shape2(orig_image))[3]

(***************************************************************************)
(* Crop.run (crop.py lines 249-345).                                       *)
(***************************************************************************)
NoOutput == [image |-> None, mask |-> None, crop_mask |-> None, masking_objects |-> None]

\* the effects of an invocation that has not done anything yet
NoRet ==
    [status |-> "",
     recalculate_flag |-> FALSE,
     warning |-> FALSE,
     cropping |-> None,
     mask |-> None,
     cropped_pixel_data |-> None,
     orig_pixel_data |-> None,
     output_image |-> NoOutput,
     added |-> FALSE,
     measurements |-> {}]

\* lines 251-252
recalculate_flag_initial(mode, workspace) ==
    mode = IO_INDIVIDUALLY \/ workspace.number = 0

\* save_flag without the test of the cycle number
save_flag_every_cycle(mode, workspace) ==
    mode = IO_FIRST

\* lines 253-254
save_flag(mode, workspace) ==
    mode = IO_FIRST /\ workspace.number = 0

\* line 256
size_differs(cache_cropping, pixel_data) == cache_cropping.shape # Shape2(pixel_data)

\* lines 269-286: the cropping of a recalculating invocation
build_cropping(settings, workspace) ==
    IF settings.shape = SH_CROPPING
    THEN [error |-> "", cropping |-> workspace.crop_mask, masking_objects |-> None]
    ELSE IF settings.shape = SH_IMAGE
    THEN IF settings.use_plate_fix
         THEN IF plate_fixup_fails(workspace.image_mask)
              THEN [error |-> "IndexError", cropping |-> None, masking_objects |-> None]
              ELSE [error |-> "",
                    cropping |-> GreaterThanZero(plate_fixup(settings, workspace.image_mask)),
                    masking_objects |-> None]
         ELSE [error |-> "",
               cropping |-> GreaterThanZero(workspace.image_mask),
               masking_objects |-> None]
    ELSE IF settings.shape = SH_OBJECTS
    THEN [error |-> "",
          cropping |-> GreaterThanZero(workspace.objects),
          masking_objects |-> workspace.objects]
    ELSE IF settings.crop_method = CM_MOUSE
    THEN [error |-> "NotImplementedError", cropping |-> None, masking_objects |-> None]
    ELSE IF settings.shape = SH_ELLIPSE
    THEN [error |-> "",
          cropping |-> ellipse_cropping(settings, workspace.image),
          masking_objects |-> None]
    ELSE [error |-> "",
          cropping |-> get_rectangle_cropping(settings, workspace.image),
          masking_objects |-> None]

\* copy_and_zero without the copy: the zero fill lands in the caller's grid
copy_and_zero_in_place(pixel_data, cropping) ==
    [orig |-> ZeroWhereNot(pixel_data, cropping), cropped |-> ZeroWhereNot(pixel_data, cropping)]

\* lines 288-291: orig_image.pixel_data.copy() and the zero fill; the
\* result names the caller's grid after the step and the new grid
copy_and_zero(pixel_data, cropping) ==
    [orig |-> pixel_data, cropped |-> ZeroWhereNot(pixel_data, cropping)]

\* lines 287-299
reduce(policy, pixel_data, cropping, mask) ==
    IF policy = RM_NO
    THEN LET cz == copy_and_zero(pixel_data, cropping)
         IN  [error |-> "",
              orig |-> cz.orig,
              cropped_pixel_data |-> cz.cropped,
              mask |-> IF mask = None THEN cropping ELSE mask]
    ELSE IF crop_image_fails(cropping)
    THEN [error |-> "EmptyMask", orig |-> pixel_data, cropped_pixel_data |-> None, mask |-> None]
    ELSE LET internal_cropping == policy = RM_ALL
             cropped == crop_image(pixel_data, cropping, internal_cropping)
             mask2 == IF mask = None
                      THEN crop_image(cropping, cropping, internal_cropping)
                      ELSE mask
         IN  [error |-> "",
              orig |-> pixel_data,
              cropped_pixel_data |-> ZeroWhereNot(cropped, mask2),
              mask |-> mask2]

\* lines 300-310
make_output_image(settings, cropped_pixel_data, mask, cropping, masking_objects) ==
    IF settings.shape = SH_OBJECTS
    THEN [image |-> cropped_pixel_data,
          mask |-> None,
          crop_mask |-> None,
          masking_objects |-> masking_objects]
    ELSE [image |-> cropped_pixel_data,
          mask |-> mask,
          crop_mask |-> cropping,
          masking_objects |-> None]

\* lines 335-338
original_image_area(unit, pixel_data) == pixel_data.shape[1] * pixel_data.shape[2] * (unit * unit)

area_retained_after_cropping(unit, cropping) == CountTrue(cropping) * (unit * unit)

\* lines 339-345
area_measurements(unit, pixel_data, cropping) ==
    {<<"Crop_AreaRetainedAfterCropping", area_retained_after_cropping(unit, cropping)>>,
     <<"Crop_OriginalImageArea", original_image_area(unit, pixel_data)>>}

\* save_cache without the test of save_flag
save_cache_always(save, cache, value) == value

\* lines 325-327
save_cache(save, cache, value) == IF save THEN value ELSE cache

\* what an invocation leaves: the cache and its effects
run_result(fc, fm, r) == [first_cropping |-> fc, first_crop_mask |-> fm, ret |-> r]

\* lines 300-345: the output image, the cache, the image set, the areas
run_output(mode, unit, cache_cropping, cache_mask, c, ret2, built, red) ==
    LET ret3 == [ret2 EXCEPT !.mask = red.mask,
                             !.cropped_pixel_data = red.cropped_pixel_data,
                             !.output_image =
                                 make_output_image(c.settings, red.cropped_pixel_data,
                                                   red.mask, built.cropping,
                                                   built.masking_objects)]
        save == save_flag(mode, c.workspace)
        fc == save_cache(save, cache_cropping, built.cropping)
        fm == save_cache(save, cache_mask, red.mask)
    IN
    IF c.fault = "add"
    THEN \* line 331 raises
         run_result(fc, fm, [ret3 EXCEPT !.status = "AddError"])
    ELSE IF c.fault = "measure"
    THEN \* line 341 raises
         run_result(fc, fm, [ret3 EXCEPT !.status = "MeasurementError", !.added = TRUE])
    ELSE run_result(fc, fm,
                    [ret3 EXCEPT !.status = "ok",
                                 !.added = TRUE,
                                 !.measurements =
                                     area_measurements(unit, c.workspace.image,
                                                       built.cropping)])

\* lines 287-299, then the rest of run unless crop_image raised
run_reduced(mode, unit, cache_cropping, cache_mask, c, ret1, built, red) ==
    IF red.error # ""
    THEN run_result(cache_cropping, cache_mask,
                    [ret1 EXCEPT !.cropping = built.cropping,
                                 !.orig_pixel_data = red.orig,
                                 !.status = red.error])
    ELSE run_output(mode, unit, cache_cropping, cache_mask, c,
                    [ret1 EXCEPT !.cropping = built.cropping,
                                 !.orig_pixel_data = red.orig],
                    built, red)

\* lines 263-286, then the rest of run unless building the cropping raised
run_cropping(mode, policy, unit, cache_cropping, cache_mask, c, ret1, built, mask0) ==
    IF built.error # ""
    THEN run_result(cache_cropping, cache_mask, [ret1 EXCEPT !.status = built.error])
    ELSE run_reduced(mode, unit, cache_cropping, cache_mask, c, ret1, built,
                     reduce(policy, c.workspace.image, built.cropping, mask0))

\* lines 255-268: the size test, then the cached or the recalculating path
run_sized(mode, policy, unit, cache_cropping, cache_mask, c, recalc0, size_changed) ==
    run_cropping(mode, policy, unit, cache_cropping, cache_mask, c,
                 [NoRet EXCEPT !.orig_pixel_data = c.workspace.image,
                               !.recalculate_flag = recalc0 \/ size_changed,
                               !.warning = size_changed],
                 IF ~(recalc0 \/ size_changed)
                 THEN [error |-> "", cropping |-> cache_cropping, masking_objects |-> None]
                 ELSE build_cropping(c.settings, c.workspace),
                 IF ~(recalc0 \/ size_changed) THEN cache_mask ELSE None)

\* lines 251-256, then the rest of run unless the empty cache is read
run_flagged(mode, policy, unit, cache_cropping, cache_mask, c, recalc0) ==
    IF ~recalc0 /\ cache_cropping = None
    THEN \* line 256: None has no attribute shape
         run_result(cache_cropping, cache_mask,
                    [NoRet EXCEPT !.orig_pixel_data = c.workspace.image,
                                  !.status = "AttributeError"])
    ELSE run_sized(mode, policy, unit, cache_cropping, cache_mask, c, recalc0,
                   ~recalc0 /\ size_differs(cache_cropping, c.workspace.image))

\* the whole of Crop.run: the cache it leaves and its effects
run(mode, policy, unit, cache_cropping, cache_mask, c) ==
    run_flagged(mode, policy, unit, cache_cropping, cache_mask, c,
                recalculate_flag_initial(mode, c.workspace))

(***************************************************************************)
(* The state machine of one Crop instance.                                 *)
(***************************************************************************)
NoRes == [cropping |-> None, pending |-> {}]

Init ==
    /\ individual_or_once \in {IO_INDIVIDUALLY, IO_FIRST}
    /\ remove_rows_and_columns \in {RM_NO, RM_EDGES, RM_ALL}
    /\ pixel_size = PixelSize
    /\ first_cropping = None
    /\ first_crop_mask = None
    /\ pc = "idle"
    /\ call = NoCall
    /\ ret = NoRet
    /\ arg = NoCall
    /\ res = NoRes

\* one invocation of Crop.run
Run ==
    /\ pc = "idle"
    /\ \E c \in Calls :
        /\ crop_image_applies(remove_rows_and_columns, c)
        /\ \E r \in {run(individual_or_once, remove_rows_and_columns, pixel_size,
                         first_cropping, first_crop_mask, c)} :
               /\ first_cropping' = r.first_cropping
               /\ first_crop_mask' = r.first_crop_mask
               /\ ret' = r.ret
        /\ call' = c
    /\ pc' = "called"
    /\ UNCHANGED <<individual_or_once, remove_rows_and_columns, pixel_size, arg, res>>

\* the pipeline moves on: the image set and measurements of the cycle go
EndCycle ==
    /\ pc = "called"
    /\ pc' = "idle"
    /\ call' = NoCall
    /\ ret' = NoRet
    /\ UNCHANGED <<individual_or_once, remove_rows_and_columns, pixel_size,
                   first_cropping, first_crop_mask, arg, res>>

Next == Run \/ EndCycle

Spec == Init /\ [][Next]_vars

(***************************************************************************)
(* get_rectangle_cropping on its own.  The mask starts as np.ones and the  *)
(* four clamps of lines 381-388 are applied one at a time in any order     *)
(* (ApplyClamp), or all at once in the order of the code                   *)
(* (GetRectangleCropping).                                                 *)
(***************************************************************************)
MaxRectangleDim == 3

Clamps == {"left", "right", "top", "bottom"}

Clamp(k, cropping, settings) ==
    CASE k = "left" -> ClampLeft(cropping, settings.horizontal_limits)
      [] k = "right" -> ClampRight(cropping, settings.horizontal_limits)
      [] k = "top" -> ClampTop(cropping, settings.vertical_limits)
      [] k = "bottom" -> ClampBottom(cropping, settings.vertical_limits)

RectangleArgs ==
    {[settings |-> [DefaultSettings EXCEPT !.shape = SH_RECTANGLE,
                                           !.horizontal_limits = h,
                                           !.vertical_limits = v],
      workspace |-> [NoWorkspace EXCEPT !.image = Ramp(sh)],
      fault |-> ""] :
        h \in RangesUpTo(MaxRectangleDim),
        v \in RangesUpTo(MaxRectangleDim),
        sh \in {<<a, b>> : a \in 1..MaxRectangleDim, b \in 1..MaxRectangleDim}}

\* the variables of the Crop instance, at rest
InstanceAtRest ==
    /\ individual_or_once = IO_INDIVIDUALLY
    /\ remove_rows_and_columns = RM_NO
    /\ pixel_size = PixelSize
    /\ first_cropping = None
    /\ first_crop_mask = None
    /\ call = NoCall
    /\ ret = NoRet

InitRectangle ==
    /\ InstanceAtRest
    /\ pc = "rectangle"
    /\ arg \in RectangleArgs
    /\ res = [cropping |-> Ones(arg.workspace.image.shape), pending |-> Clamps]

ApplyClamp ==
    /\ pc = "rectangle"
    /\ \E k \in res.pending :
        res' = [cropping |-> Clamp(k, res.cropping, arg.settings),
                pending |-> res.pending \ {k}]
    /\ UNCHANGED <<individual_or_once, remove_rows_and_columns, pixel_size,
                   first_cropping, first_crop_mask, pc, call, ret, arg>>

GetRectangleCropping ==
    /\ pc = "rectangle"
    /\ res.pending = Clamps
    /\ res' = [cropping |-> get_rectangle_cropping(arg.settings, arg.workspace.image),
               pending |-> {}]
    /\ UNCHANGED <<individual_or_once, remove_rows_and_columns, pixel_size,
                   first_cropping, first_crop_mask, pc, call, ret, arg>>

NextRectangle == ApplyClamp \/ GetRectangleCropping

SpecRectangle == InitRectangle /\ [][NextRectangle]_vars

(***************************************************************************)
(* get_ellipse_cropping on its own.                                        *)
(***************************************************************************)
MaxEllipseDim == 2
MaxEllipseCenter == 1
MaxEllipseRadius == 3

EllipseArgs ==
    {[settings |-> [DefaultSettings EXCEPT !.shape = SH_ELLIPSE,
                                           !.ellipse_center = <<cx, cy>>,
                                           !.ellipse_x_radius = rx,
                                           !.ellipse_y_radius = ry],
      workspace |-> [NoWorkspace EXCEPT !.image = Ramp(<<h, w>>)],
      fault |-> ""] :
        cx \in 0..MaxEllipseCenter, cy \in 0..MaxEllipseCenter,
        rx \in 0..MaxEllipseRadius, ry \in 0..MaxEllipseRadius,
        h \in 1..MaxEllipseDim, w \in 1..MaxEllipseDim}

InitEllipse ==
    /\ InstanceAtRest
    /\ pc = "ellipse"
    /\ arg \in EllipseArgs
    /\ res = [cropping |-> None, pending |-> {"ellipse"}]

GetEllipseCropping ==
    /\ pc = "ellipse"
    /\ res.pending = {"ellipse"}
    /\ res' = [cropping |-> get_ellipse_cropping(arg.settings, arg.workspace.image),
               pending |-> {}]
    /\ UNCHANGED <<individual_or_once, remove_rows_and_columns, pixel_size,
                   first_cropping, first_crop_mask, pc, call, ret, arg>>

NextEllipse == GetEllipseCropping

SpecEllipse == InitEllipse /\ [][NextEllipse]_vars

(***************************************************************************)
(* Crop.plate_fixup on its own (crop.py lines 391-425): every 0/1 grid of  *)
(* at most MaxPlateCells pixels, limits unbounded or bounded along one     *)
(* axis.                                                                   *)
(***************************************************************************)
MaxPlateCells == 9
MaxPlateLimit == 2

\* the shapes of at most n pixels
PlateShapes(n) == {hw \in (1..n) \X (1..n) : hw[1] * hw[2] <= n}

\* the 0/1 grids of a shape
PlateGrids(shape) == {[shape |-> shape, px |-> f] : f \in [Idx(shape) -> {0, 1}]}

\* plate fix with limits up to n along one axis
PlateSettings(n) ==
    {[DefaultSettings EXCEPT !.shape = SH_IMAGE,
                             !.use_plate_fix = TRUE,
                             !.horizontal_limits = h,
                             !.vertical_limits = v] :
        h \in RangesUpTo(n), v \in {Unbounded}}
    \cup {[DefaultSettings EXCEPT !.shape = SH_IMAGE,
                                  !.use_plate_fix = TRUE,
                                  !.horizontal_limits = h,
                                  !.vertical_limits = v] :
        h \in {Unbounded}, v \in RangesUpTo(n)}

PlateArgs(cells, limit) ==
    {[settings |-> s, workspace |-> [NoWorkspace EXCEPT !.image_mask = g], fault |-> ""] :
        s \in PlateSettings(limit), g \in UNION {PlateGrids(hw) : hw \in PlateShapes(cells)}}

\* line 398 and lines 417-425: the caller's grid after the call and the
\* grid returned
plate_fixup_copy(settings, pixel_data) ==
    [orig |-> pixel_data, fixed |-> plate_fixup(settings, pixel_data)]

InitPlate ==
    /\ InstanceAtRest
    /\ pc = "plate"
    /\ arg \in PlateArgs(MaxPlateCells, MaxPlateLimit)
    /\ res = [cropping |-> None, pending |-> {"cumsum", "window"},
              i_cumsum |-> <<>>, j_cumsum |-> <<>>]

\* lines 398-402
PlateCumsum ==
    /\ pc = "plate"
    /\ res.pending = {"cumsum", "window"}
    /\ res' = [res EXCEPT !.pending = {"window"},
                          !.i_cumsum = i_cumsum(arg.workspace.image_mask),
                          !.j_cumsum = j_cumsum(arg.workspace.image_mask)]
    /\ UNCHANGED <<individual_or_once, remove_rows_and_columns, pixel_size,
                   first_cropping, first_crop_mask, pc, call, ret, arg>>

\* lines 403-425
PlateWindow ==
    /\ pc = "plate"
    /\ res.pending = {"window"}
    /\ IF plate_fixup_fails(arg.workspace.image_mask)
       THEN /\ res' = [res EXCEPT !.pending = {}]
            /\ ret' = [NoRet EXCEPT !.status = "IndexError",
                                    !.orig_pixel_data = arg.workspace.image_mask]
       ELSE \E r \in {plate_fixup_copy(arg.settings, arg.workspace.image_mask)} :
            /\ res' = [res EXCEPT !.pending = {}, !.cropping = r.fixed]
            /\ ret' = [NoRet EXCEPT !.status = "ok", !.orig_pixel_data = r.orig]
    /\ UNCHANGED <<individual_or_once, remove_rows_and_columns, pixel_size,
                   first_cropping, first_crop_mask, pc, call, arg>>

NextPlate == PlateCumsum \/ PlateWindow

SpecPlate == InitPlate /\ [][NextPlate]_vars

(***************************************************************************)
(* Properties.                                                             *)
(***************************************************************************)
\* a step that is one invocation of Crop.run
RunStep == pc = "idle" /\ pc' = "called"

\* the step leaves the cache as it was
CacheUnchanged == first_cropping' = first_cropping /\ first_crop_mask' = first_crop_mask

\* the invocation got as far as building its output image (line 310)
BuiltOutput(r) == r.output_image # NoOutput

\* C1: in "First" mode, once the cache is populated, an invocation of a later
\* cycle whose grid has the (H, W) of the grid the cache was computed for
\* takes the cached path: no recalculation, and its cropping and mask are
\* the cached ones.  (The leading two dimensions of a cropping are the
\* (H, W) of the grid it was built for.)
C1_SameSizeUsesCache ==
    [][(/\ RunStep
        /\ individual_or_once = IO_FIRST
        /\ first_cropping # None
        /\ call'.workspace.number > 0
        /\ Shape2(call'.workspace.image) = Shape2(first_cropping))
       => (/\ ~ret'.recalculate_flag
           /\ ret'.cropping = first_cropping
           /\ ret'.mask = first_crop_mask)]_vars

\* C2 as stated: once the cache holds a value, no later invocation gives it
\* another.
C2_NeverAssignedAgain ==
    [][(RunStep /\ first_cropping # None) => CacheUnchanged]_vars

\* C2 amended: the cache is assigned only by invocations of cycle number 0 in
\* "First" mode.  Such an invocation, once it has built its output image,
\* stores its own cropping and mask, whether or not the cache held a value;
\* every other invocation leaves the cache as it was.
C2_AssignedOnlyInCycleZero ==
    [][RunStep =>
        IF /\ individual_or_once = IO_FIRST
           /\ call'.workspace.number = 0
           /\ BuiltOutput(ret')
        THEN first_cropping' = ret'.cropping /\ first_crop_mask' = ret'.mask
        ELSE CacheUnchanged]_vars

\* a later cycle has run on the cached path and the cache is still there
C2_Witness ==
    /\ pc = "called"
    /\ individual_or_once = IO_FIRST
    /\ call.workspace.number > 0
    /\ ret.status = "ok"
    /\ ~ret.recalculate_flag
    /\ first_cropping # None
    /\ ret.cropping = first_cropping

\* C3 as stated: with a populated cache in "First" mode, an invocation whose
\* grid differs in (H, W) from the cached cropping's shape recalculates,
\* warns and leaves the cache unchanged.
C3_MismatchKeepsCache ==
    [][(/\ RunStep
        /\ individual_or_once = IO_FIRST
        /\ first_cropping # None
        /\ first_cropping.shape # Shape2(call'.workspace.image))
       => (ret'.recalculate_flag /\ ret'.warning /\ CacheUnchanged)]_vars

\* the cropping an invocation computes from its own settings and sources
OwnCropping(c) == build_cropping(c.settings, c.workspace).cropping

\* C3 amended: the same for an invocation of cycle number > 0; such an
\* invocation recalculates from its own shape settings, warns and leaves the
\* cache unchanged, and one whose grid matches the cached shape uses the
\* cached cropping and mask.
C3_LaterMismatchKeepsCache ==
    [][(/\ RunStep
        /\ individual_or_once = IO_FIRST
        /\ first_cropping # None
        /\ call'.workspace.number > 0)
       => IF first_cropping.shape # Shape2(call'.workspace.image)
          THEN /\ ret'.recalculate_flag
               /\ ret'.warning
               /\ CacheUnchanged
               /\ ret'.cropping # None => ret'.cropping = OwnCropping(call')
          ELSE /\ ~ret'.recalculate_flag
               /\ ~ret'.warning
               /\ CacheUnchanged
               /\ ret'.cropping = first_cropping
               /\ ret'.mask = first_crop_mask]_vars

\* a later cycle met a grid of another size, recalculated a cropping of its
\* own and the cache kept the first one
C3_Witness ==
    /\ pc = "called"
    /\ individual_or_once = IO_FIRST
    /\ call.workspace.number > 0
    /\ ret.status = "ok"
    /\ ret.warning
    /\ first_cropping # None
    /\ Len(first_cropping.shape) = 2
    /\ ret.cropping # first_cropping

\* C4: in "First" mode an invocation that finds the cache empty, whatever its
\* cycle number, runs the full pipeline (it never reads the empty cache) and
\* on success leaves the cache holding its cropping and mask.
C4_EmptyCacheRecalculates ==
    [][(/\ RunStep
        /\ individual_or_once = IO_FIRST
        /\ first_cropping = None)
       => (/\ ret'.status # "AttributeError"
           /\ ret'.recalculate_flag
           /\ ret'.status = "ok" =>
                (/\ first_cropping' # None
                 /\ first_cropping' = ret'.cropping
                 /\ first_crop_mask' = ret'.mask))]_vars

\* C5: an invocation that fails, at whatever step, leaves the cache as it was.
C5_FailureKeepsCache ==
    [][(RunStep /\ individual_or_once = IO_FIRST /\ ret'.status # "ok")
       => CacheUnchanged]_vars

\* C6: once every clamp is applied, in whatever order, the rectangle mask
\* has the shape of the image and is true exactly on the rows [y0, y1) and
\* the columns [x0, x1) that lie in the grid, an unbounded side imposing no
\* clamp.
InRange(k, range) ==
    /\ range.unbounded_min \/ k >= range.min
    /\ range.unbounded_max \/ k < range.max

C6_RectangleIsExact ==
    (pc = "rectangle" /\ res.pending = {}) =>
        /\ res.cropping.shape = arg.workspace.image.shape
        /\ \A p \in DOMAIN res.cropping.px :
            res.cropping.px[p] = (/\ InRange(p[1], arg.settings.vertical_limits)
                                  /\ InRange(p[2], arg.settings.horizontal_limits))

\* a rectangle with four bounds strictly inside the grid is complete and has
\* (x1 - x0) * (y1 - y0) true pixels
C6_Witness ==
    LET h == arg.settings.horizontal_limits
        v == arg.settings.vertical_limits
    IN  /\ pc = "rectangle"
        /\ res.pending = {}
        /\ ~h.unbounded_min /\ ~h.unbounded_max /\ ~v.unbounded_min /\ ~v.unbounded_max
        /\ 0 < h.min /\ h.min < h.max /\ h.max < arg.workspace.image.shape[2]
        /\ 0 < v.min /\ v.min < v.max /\ v.max < arg.workspace.image.shape[1]
        /\ CountTrue(res.cropping) = (h.max - h.min) * (v.max - v.min)

\* C7: the ellipse mask includes the centre pixel and the four axis-extreme
\* pixels (cx +/- rx, cy) and (cx, cy +/- ry) that lie in the grid.
C7_AxisExtremesIncluded ==
    (pc = "ellipse" /\ res.pending = {}) =>
        LET cx == arg.settings.ellipse_center[1]
            cy == arg.settings.ellipse_center[2]
            rx == arg.settings.ellipse_x_radius
            ry == arg.settings.ellipse_y_radius
            points == {<<cy, cx>>, <<cy, cx + rx>>, <<cy, cx - rx>>,
                       <<cy + ry, cx>>, <<cy - ry, cx>>}
        IN  \A p \in points \cap DOMAIN res.cropping.px : res.cropping.px[p]

C9_EmptyMaskFails ==
    (pc = "called" /\ ret.cropping # None /\ CountTrue(ret.cropping) = 0) =>
        /\ ret.status = "EmptyMask"
        /\ ret.cropped_pixel_data = None
        /\ ~ret.added
        /\ ret.measurements = {}

\* the (row, column) positions at which a cropping is true
TruePixels(m) == {<<p[1], p[2]>> : p \in {q \in DOMAIN m.px : m.px[q]}}

\* C10: after a successful invocation the original area is H*W units, the
\* retained area is one unit per true pixel of the H x W cropping, and so the
\* retained area is at most the original area.
C10_AreasCountPixels ==
    (pc = "called" /\ ret.status = "ok") =>
        LET unit == pixel_size * pixel_size
            original == call.workspace.image.shape[1] * call.workspace.image.shape[2] * unit
            retained == Cardinality(TruePixels(ret.cropping)) * unit
        IN  /\ ret.measurements = {<<"Crop_AreaRetainedAfterCropping", retained>>,
                                   <<"Crop_OriginalImageArea", original>>}
            /\ \A m \in ret.measurements :
                m[1] = "Crop_AreaRetainedAfterCropping" => m[2] <= original

\* C11: whenever the shape is SH_OBJECTS, a successful invocation (either
\* mode, recalculating or on the cached path) builds an output image that
\* refers to the labeled objects (masking_objects is not None) and carries
\* no mask and no crop_mask of its own.
C11_ObjectsOutputRefersToObjects ==
    (pc = "called" /\ ret.status = "ok" /\ call.settings.shape = SH_OBJECTS) =>
        /\ ret.output_image.masking_objects # None
        /\ ret.output_image.mask = None
        /\ ret.output_image.crop_mask = None

\* C14: every cropping built during an invocation (Rectangle, Ellipse, image,
\* objects or cropping source; grey or colour grid) is two-dimensional with
\* the (H, W) of the input grid, and so the cropping kept in the cache of
\* "First" mode has the shape line 256 compares a grid's (H, W) with.
C14_CroppingIsTwoDimensional ==
    /\ (pc = "called" /\ ret.recalculate_flag /\ ret.cropping # None) =>
           ret.cropping.shape = Shape2(call.workspace.image)
    /\ first_cropping # None => Len(first_cropping.shape) = 2

\* the line at index k is one np.cumsum counted: the running count steps up
CountedAt(cumsum, k) == cumsum[k] > (IF k = 0 THEN 0 ELSE cumsum[k - 1])

\* the number of object pixels in row i, in column j
RowCover(g, i) == Cardinality({j \in 0..(g.shape[2] - 1) : g.px[<<i, j>>] = 1})

ColCover(g, j) == Cardinality({i \in 0..(g.shape[1] - 1) : g.px[<<i, j>>] = 1})

\* the rows, the columns the object covers by more than half of their length
MajorityRows(g) == {i \in 0..(g.shape[1] - 1) : 2 * RowCover(g, i) > g.shape[2]}

MajorityCols(g) == {j \in 0..(g.shape[2] - 1) : 2 * ColCover(g, j) > g.shape[1]}

\* C12: on a 0/1 grid of any height and width, plate_fixup counts a row
\* exactly when the object covers more than half of the row's length W, and
\* a column exactly when it covers more than half of the column's length H;
\* a line covered by less than 50% is never counted.
C12_CountsMajorityLines ==
    (pc = "plate" /\ "cumsum" \notin res.pending) =>
        LET g == arg.workspace.image_mask
        IN  /\ \A i \in 0..(g.shape[1] - 1) :
                CountedAt(res.i_cumsum, i) <=> i \in MajorityRows(g)
            /\ \A j \in 0..(g.shape[2] - 1) :
                CountedAt(res.j_cumsum, j) <=> j \in MajorityCols(g)

\* C13: plate_fixup fails when no row or no column is majority-covered;
\* otherwise the window runs from the first majority-covered row to one past
\* the last, likewise for columns, intersected with the limits that are
\* bounded; the grid returned is the input inside the window and zero
\* outside it, and the caller's grid is as it was.
C13_WindowOfMajorityLines ==
    (pc = "plate" /\ res.pending = {}) =>
        LET g == arg.workspace.image_mask
            h == arg.settings.horizontal_limits
            v == arg.settings.vertical_limits
            rows == MajorityRows(g)
            cols == MajorityCols(g)
        IN  IF rows = {} \/ cols = {}
            THEN ret.status = "IndexError" /\ res.cropping = None
            ELSE LET i_first == IF ~v.unbounded_min
                                THEN Max2(SetMin(rows), v.min) ELSE SetMin(rows)
                     i_end == IF ~v.unbounded_max
                              THEN Min2(SetMax(rows) + 1, v.max) ELSE SetMax(rows) + 1
                     j_first == IF ~h.unbounded_min
                                THEN Max2(SetMin(cols), h.min) ELSE SetMin(cols)
                     j_end == IF ~h.unbounded_max
                              THEN Min2(SetMax(cols) + 1, h.max) ELSE SetMax(cols) + 1
                 IN  /\ ret.status = "ok"
                     /\ ret.orig_pixel_data = g
                     /\ res.cropping.shape = g.shape
                     /\ \A p \in DOMAIN g.px :
                         res.cropping.px[p] =
                             IF /\ i_first <= p[1] /\ p[1] < i_end
                                /\ j_first <= p[2] /\ p[2] < j_end
                             THEN g.px[p]
                             ELSE 0

====
